---- MODULE Spec2Model ----
(***************************************************************************)
(* Banking analytics pipeline: the sample-data generator                   *)
(* (src/ingestion/generate_sample_data.py) and the chunked CSV-to-table    *)
(* loader (src/ingestion/load_data_to_db.py).                              *)
(*                                                                         *)
(* Four specifications share the module:                                   *)
(*   SpecLoad  the loader: main() over the three tables, or one direct     *)
(*             call of load_csv_to_table with any if_exists mode;          *)
(*   SpecGen   a generation run over the three tables: the identifier      *)
(*             columns that link customers, accounts and transactions,     *)
(*             and the three CSV files the run saves;                      *)
(*   SpecTxn   generate_transaction_data on one account, the amount draws  *)
(*             ranging over Draws and every date drawn the same;           *)
(*   SpecDates the same steps, the dates ranging over Dates and every      *)
(*             amount drawn the same.                                      *)
(*                                                                         *)
(* Money is fixed point: balances and amounts are in cents, a log-normal   *)
(* draw is in mills (thousandths), so that rounding to two decimals is a   *)
(* real operation.  The running balance is a double in the code: the model *)
(* keeps its value in cents, its sign (rb_sign) and whether every operand  *)
(* so far was a multiple of 0.25 (rb_exact), which a double adds and       *)
(* subtracts without error; after any other operand a balance of zero      *)
(* cents is a double a little above, a little below or at zero.            *)
(* Strings of digits are sequences over 0..9.                              *)
(***************************************************************************)
EXTENDS Integers, Sequences

VARIABLES
    \* ---- loader (load_data_to_db.py) ----
    lpc,            \* position in main() / load_csv_to_table()
    entry,          \* "main" or "direct" (load_csv_to_table called by itself)
    if_exists,      \* the if_exists argument of the running load
    chunk_size,     \* the value of CHUNK_SIZE in this run
    db,             \* table name -> [exists, rows]: the target store
    file,           \* table name -> the CSV file as read ([exists, rows])
    table_idx,      \* index into get_files_and_tables() of main's for loop
    cur_table,      \* table_name of the running load_csv_to_table
    chunk_i,        \* i of enumerate(chunk_iter, 1): the next chunk
    rows_loaded,    \* rows_loaded of the running load
    exc,            \* the exception in flight (NoExc when none)
    calls,          \* every to_sql call so far: <<table, i, "ok" | "raised">>
    prior,          \* table name -> the rows the table held when its load began
    \* ---- generation run (generate_sample_data.py) ----
    gpc,            \* position in the __main__ block
    n_customers,    \* NUM_CUSTOMERS of this run
    customers,      \* df_customers: sequence of customer rows
    accounts,       \* df_accounts: sequence of account rows
    transactions,   \* the transactions list: sequence of transaction rows
    cust_i,         \* next row of customer_df.iterrows()
    acct_i,         \* next row of account_df.iterrows()
    account_counter,
    cur_total,      \* total_txns of the account at acct_i
    cur_k,          \* transactions emitted so far for the account at acct_i
    txn_counter,    \* txn_counter (both SpecGen and SpecTxn)
    \* ---- generate_transaction_data on one account ----
    tpc,            \* position in the loop body of lines 104-174
    account,        \* the account row
    total_txns,     \* total_txns
    txn_dates,      \* txn_dates, once drawn and sorted
    txn_k,          \* number of transactions emitted for the account
    running_balance,\* running_balance, in cents
    rb_sign,        \* the sign of the double running_balance: -1, 0 or 1
    rb_exact,       \* the double running_balance is the cents value exactly
    balance_before, \* running_balance as it was before the last transaction
    sign_before,    \* rb_sign as it was before the last transaction
    txn,            \* the row appended last (NoTxn before the first)
    txn_rows        \* transaction_id and transaction_date of the rows appended

lvars == <<lpc, entry, if_exists, chunk_size, db, file, table_idx, cur_table,
           chunk_i, rows_loaded, exc, calls, prior>>
gvars == <<gpc, n_customers, customers, accounts, transactions, cust_i, acct_i,
           account_counter, cur_total, cur_k>>
tvars == <<tpc, account, total_txns, txn_dates, txn_k, running_balance,
           rb_sign, rb_exact, balance_before, sign_before, txn, txn_rows>>
vars == <<lvars, gvars, tvars, txn_counter>>

----------------------------------------------------------------------------
(* Bounds of the model *)

\* most data rows in one CSV file
MaxRows == 3
\* CHUNK_SIZE is drawn from 1..MaxChunkSize and the shipped value
MaxChunkSize == 2
\* NUM_CUSTOMERS is drawn from 0..MaxCustomers
MaxCustomers == 2
\* num_accounts of a customer is drawn from 1..MaxAccountsPerCustomer
MaxAccountsPerCustomer == 2
\* total_txns of an account is drawn from MinTxns..MaxTxns
MaxTxns == 5
\* a transaction date is a number of seconds 0..MaxDate after start_date
MaxDate == 1

----------------------------------------------------------------------------
(* Helpers *)

Max(a, b) == IF a >= b THEN a ELSE b
Min(a, b) == IF a <= b THEN a ELSE b

Range(s) == {s[k] : k \in 1..Len(s)}

RECURSIVE SeqsUpTo(_, _)
\* all sequences over S of length 0..n
SeqsUpTo(S, n) ==
    IF n = 0 THEN {<<>>}
    ELSE LET shorter == SeqsUpTo(S, n - 1)
         IN shorter \cup {Append(s, x) : s \in {q \in shorter : Len(q) = n - 1}, x \in S}

----------------------------------------------------------------------------
(* Merchant category codes: generate_transaction_data's lookup table *)

mcc_codes(d) ==
    CASE d = "Grocery"         -> <<5, 4, 1, 1>>
      [] d = "Gas_Station"     -> <<5, 5, 4, 1>>
      [] d = "Restaurant"      -> <<5, 8, 1, 2>>
      [] d = "Online_Retail"   -> <<5, 9, 6, 4>>
      [] d = "Entertainment"   -> <<7, 9, 9, 6>>
      [] d = "ATM_Withdrawal"  -> <<6, 0, 1, 0>>
      [] d = "Transfer"        -> <<6, 0, 1, 2>>
      [] d = "Service_Payment" -> <<4, 8, 1, 4>>
      [] d = "Unknown"         -> <<0, 0, 0, 0>>
      [] OTHER                 -> <<0, 0, 0, 0>>

----------------------------------------------------------------------------
(* CSV round trip of a column of digit strings *)

IsDigits(chars) == Len(chars) > 0 /\ \A k \in 1..Len(chars) : chars[k] \in 0..9

RECURSIVE ParseInt(_)
\* the integer a field of digits denotes (leading zeros carry no value)
ParseInt(chars) ==
    IF Len(chars) = 0 THEN 0
    ELSE 10 * ParseInt(SubSeq(chars, 1, Len(chars) - 1)) + chars[Len(chars)]

RECURSIVE IntToStr(_)
\* str(n) of a non-negative integer: its shortest decimal form
IntToStr(n) ==
    IF n < 10 THEN <<n>> ELSE Append(IntToStr(n \div 10), n % 10)

\* DataFrame.to_csv: a string cell is written as its characters
to_csv_field(chars) == chars

\* pd.read_csv of one chunk with no dtype given: a column whose every field is an
\* integer literal becomes int64, any other column stays text (object)
read_csv_column(fields) ==
    IF \A k \in 1..Len(fields) : IsDigits(fields[k])
    THEN [k \in 1..Len(fields) |-> [dtype |-> "int64", val |-> ParseInt(fields[k])]]
    ELSE [k \in 1..Len(fields) |-> [dtype |-> "object", val |-> fields[k]]]

\* .fillna('0000').astype(str) on one cell of the column read
mcc_astype_str(cell) ==
    IF cell.dtype = "int64" THEN IntToStr(cell.val) ELSE cell.val

----------------------------------------------------------------------------
(* Loader: configuration *)

CHUNK_SIZE == 5000

TABLES_LOAD_ORDER == <<"customers", "accounts", "transactions">>

Tables == Range(TABLES_LOAD_ORDER)

\* the pairs listed with the child table first
get_files_and_tables_reordered == <<"accounts", "customers", "transactions">>

\* get_files_and_tables(): the table of each (file, table) pair, in order; the
\* file of a table is file[table]
get_files_and_tables == <<"customers", "accounts", "transactions">>

ChunkSizes == (1..MaxChunkSize) \cup {CHUNK_SIZE}

IfExistsModes == {"append", "replace", "fail"}

NoExc == [type |-> "none", table |-> "", chunk |-> 0]
FileNotFoundError(t) == [type |-> "FileNotFoundError", table |-> t, chunk |-> 0]
EngineError == [type |-> "ValueError", table |-> "", chunk |-> 0]
ToSqlError(t, i) == [type |-> "DatabaseError", table |-> t, chunk |-> i]
TableExistsError(t, i) == [type |-> "ValueError", table |-> t, chunk |-> i]

\* the categories of merchant the sample files draw their codes from
SampleDescs == {"Unknown", "Grocery", "Transfer"}

\* a row of a generated table as written to its CSV file; n is its position.
\* Of the columns the loader touches, merchant_category_code is kept: the date
\* columns (lines 48-52, 70-72) and the object casts (lines 82-85) neither move
\* nor drop a row
FileRow(t, n, code) ==
    [src |-> "file", table |-> t, n |-> n, mcc |-> to_csv_field(code)]

\* DataFrame.to_csv(path, index=False) of table t's frame, given the
\* merchant_category_code of each of its rows (<<>> where the table has no such
\* column): the file is created or overwritten, a line per row
to_csv(t, codes) ==
    [exists |-> TRUE, rows |-> [k \in 1..Len(codes) |-> FileRow(t, k, codes[k])]]

\* a row the table held before the run
PriorRow(t) == [src |-> "prior", table |-> t, n |-> 0, mcc |-> <<>>]

\* the CSV files a table's load can find: missing, or a header and 0..MaxRows rows
Files(t) ==
    {[exists |-> FALSE, rows |-> <<>>]} \cup
    IF t = "transactions"
    THEN {[exists |-> TRUE,
           rows |-> [k \in 1..Len(cs) |-> FileRow(t, k, mcc_codes(cs[k]))]]
            : cs \in SeqsUpTo(SampleDescs, MaxRows)}
    ELSE {[exists |-> TRUE, rows |-> [k \in 1..r |-> FileRow(t, k, <<>>)]]
            : r \in 0..MaxRows}

\* number of chunks pd.read_csv(chunksize=size) yields for r data rows: a
\* header-only file yields one empty chunk
NumChunks(r, size) == IF r = 0 THEN 1 ELSE (r + size - 1) \div size

\* chunk i (from 1) of the file's rows
ReadChunk(rows, i, size) ==
    SubSeq(rows, (i - 1) * size + 1, Min(i * size, Len(rows)))

\* lines 74-77: the pre-processing of one chunk before insertion
NormalizeChunk(t, chunk) ==
    IF t = "transactions"
    THEN LET col == read_csv_column([k \in 1..Len(chunk) |-> chunk[k].mcc])
         IN [k \in 1..Len(chunk) |-> [chunk[k] EXCEPT !.mcc = mcc_astype_str(col[k])]]
    ELSE chunk

\* the if_exists argument load_csv_to_table hands to_sql for chunk i
ToSqlMode(mode, i) == mode

\* to_sql that keeps the rows already there whatever the mode
to_sql_keeps_rows(cell, mode, chunk) ==
    [exists |-> TRUE, rows |-> (IF cell.exists THEN cell.rows ELSE <<>>) \o chunk]

\* DataFrame.to_sql(table, if_exists=mode) on a table cell, when it succeeds
to_sql(cell, mode, chunk) ==
    CASE mode = "replace" -> [exists |-> TRUE, rows |-> chunk]
      [] mode = "append"  -> [exists |-> TRUE,
                              rows |-> (IF cell.exists THEN cell.rows ELSE <<>>) \o chunk]
      [] OTHER            -> [exists |-> TRUE, rows |-> chunk]

----------------------------------------------------------------------------
(* Loader: exception handlers.  Each gives the position control moves to and *)
(* the exception in flight afterwards.                                       *)

\* a handler that logs the chunk and goes on with the next one
chunk_except_swallows(e) == [lpc |-> "chunk_loop", exc |-> NoExc]

\* lines 98-103: log the chunk and its dtypes, then raise
chunk_except(e) == [lpc |-> "load_except", exc |-> e]

\* where an exception leaving load_csv_to_table lands: main's except clause,
\* or the top level when the function was called by itself
RaiseSite(caller) == IF caller = "main" THEN "main_except" ELSE "raised"

\* lines 107-111: FileNotFoundError is re-raised, anything else logged and
\* re-raised; control leaves load_csv_to_table for its caller
load_except(e, caller) == [lpc |-> RaiseSite(caller), exc |-> e]

\* lines 136-138: log critical, raise
main_except(e) == [lpc |-> "raised", exc |-> e]

----------------------------------------------------------------------------
(* Loader: state machine *)

IdleGen ==
    /\ gpc = "idle" /\ n_customers = 0 /\ customers = <<>> /\ accounts = <<>>
    /\ transactions = <<>> /\ cust_i = 0 /\ acct_i = 0
    /\ account_counter = 0 /\ cur_total = 0 /\ cur_k = 0

NoAccount == [account_id |-> <<>>, account_type |-> "none", balance |-> 0]
NoTxn == [transaction_id |-> <<>>, account_id |-> <<>>, transaction_date |-> 0,
          transaction_type |-> "none", amount |-> 0,
          merchant_category_code |-> <<>>]

IdleTxn ==
    /\ tpc = "idle" /\ account = NoAccount /\ total_txns = 0 /\ txn_dates = <<>>
    /\ txn_k = 0 /\ running_balance = 0 /\ balance_before = 0 /\ txn = NoTxn
    /\ rb_sign = 0 /\ rb_exact = TRUE /\ sign_before = 0
    /\ txn_rows = <<>>

IdleLoad ==
    /\ lpc = "idle" /\ entry = "none" /\ if_exists = "none" /\ chunk_size = 0
    /\ db = [t \in Tables |-> [exists |-> FALSE, rows |-> <<>>]]
    /\ file = [t \in Tables |-> [exists |-> FALSE, rows |-> <<>>]]
    /\ table_idx = 0 /\ cur_table = "none" /\ chunk_i = 0 /\ rows_loaded = 0
    /\ exc = NoExc /\ calls = <<>>
    /\ prior = [t \in Tables |-> <<>>]

\* the store before the run: each table absent, or holding a row of an earlier run
InitialStores ==
    [Tables -> {[exists |-> FALSE, rows |-> <<>>]} \cup
               {[exists |-> TRUE, rows |-> <<PriorRow(t)>>] : t \in Tables}]

InitLoad ==
    /\ IdleGen /\ IdleTxn /\ txn_counter = 0
    /\ chunk_size \in ChunkSizes
    /\ db \in {d \in InitialStores :
                 \A t \in Tables : d[t].exists => d[t].rows = <<PriorRow(t)>>}
    /\ file = [t \in Tables |-> [exists |-> FALSE, rows |-> <<>>]]
    /\ prior = [t \in Tables |-> <<>>]
    /\ chunk_i = 0 /\ rows_loaded = 0 /\ exc = NoExc /\ calls = <<>>
    /\ \/ /\ entry = "main"                 \* python load_data_to_db.py
          /\ lpc = "main_start"
          /\ if_exists = "none" /\ table_idx = 0 /\ cur_table = "none"
       \/ /\ entry = "direct"               \* load_csv_to_table(path, table, engine, ...)
          /\ lpc = "load_entry"
          /\ if_exists \in IfExistsModes
          /\ table_idx = 0
          /\ cur_table \in Tables

\* main, lines 124-128: get_database_engine() returns, or raises on a bad
\* configuration
AcquireEngine ==
    /\ lpc = "main_start"
    /\ \/ /\ lpc' = "next_table" /\ table_idx' = 1 /\ exc' = exc
       \/ /\ lpc' = "main_except" /\ exc' = EngineError /\ table_idx' = table_idx
    /\ UNCHANGED <<entry, if_exists, chunk_size, db, file, cur_table, chunk_i,
                   rows_loaded, calls, prior>>
    /\ UNCHANGED <<gvars, tvars, txn_counter>>

\* main, lines 130-134: the next (file, table) pair is loaded with
\* if_exists='replace'; after the last the run ends successfully
NextTable ==
    /\ lpc = "next_table"
    /\ IF table_idx <= Len(get_files_and_tables)
       THEN /\ cur_table' = get_files_and_tables[table_idx]
            /\ if_exists' = "replace"
            /\ lpc' = "load_entry"
       ELSE /\ lpc' = "done"
            /\ UNCHANGED <<cur_table, if_exists>>
    /\ UNCHANGED <<entry, chunk_size, db, file, table_idx, chunk_i, rows_loaded,
                   exc, calls, prior>>
    /\ UNCHANGED <<gvars, tvars, txn_counter>>

\* load_csv_to_table, lines 41-63: a missing file raises FileNotFoundError
\* outside the try; otherwise the chunk iterator is opened
LoadEntry ==
    /\ lpc = "load_entry"
    /\ \E f \in Files(cur_table) :
         /\ file' = [file EXCEPT ![cur_table] = f]
         /\ IF f.exists
            THEN /\ lpc' = "chunk_loop"
                 /\ chunk_i' = 1
                 /\ rows_loaded' = 0
                 /\ exc' = exc
            ELSE /\ lpc' = RaiseSite(entry)
                 /\ exc' = FileNotFoundError(cur_table)
                 /\ UNCHANGED <<chunk_i, rows_loaded>>
    /\ prior' = [prior EXCEPT ![cur_table] = db[cur_table].rows]
    /\ UNCHANGED <<entry, if_exists, chunk_size, db, table_idx, cur_table, calls>>
    /\ UNCHANGED <<gvars, tvars, txn_counter>>

HasChunk ==
    /\ lpc = "chunk_loop"
    /\ chunk_i <= NumChunks(Len(file[cur_table].rows), chunk_size)

CurChunk ==
    NormalizeChunk(cur_table,
                   ReadChunk(file[cur_table].rows, chunk_i, chunk_size))

\* to_sql refuses: if_exists='fail' and the table is there
Refused == ToSqlMode(if_exists, chunk_i) = "fail" /\ db[cur_table].exists

\* lines 64-97: one chunk is pre-processed and written
LoadChunk ==
    /\ HasChunk
    /\ ~Refused
    /\ db' = [db EXCEPT ![cur_table] =
                to_sql(db[cur_table], ToSqlMode(if_exists, chunk_i), CurChunk)]
    /\ rows_loaded' = rows_loaded + Len(CurChunk)
    /\ calls' = Append(calls, <<cur_table, chunk_i, "ok">>)
    /\ chunk_i' = chunk_i + 1
    /\ UNCHANGED <<lpc, entry, if_exists, chunk_size, file, table_idx, cur_table,
                   exc, prior>>
    /\ UNCHANGED <<gvars, tvars, txn_counter>>

\* lines 95, 98: to_sql raises (a type mismatch, a constraint, a lost
\* connection, or the table exists under if_exists='fail'); the failed write
\* leaves the table as it was
LoadChunkRaises ==
    /\ HasChunk
    /\ lpc' = "chunk_except"
    /\ exc' = IF Refused THEN TableExistsError(cur_table, chunk_i)
              ELSE ToSqlError(cur_table, chunk_i)
    /\ calls' = Append(calls, <<cur_table, chunk_i, "raised">>)
    /\ chunk_i' = chunk_i + 1
    /\ UNCHANGED <<entry, if_exists, chunk_size, db, file, table_idx, cur_table,
                   rows_loaded, prior>>
    /\ UNCHANGED <<gvars, tvars, txn_counter>>

\* lines 98-103
ChunkExcept ==
    /\ lpc = "chunk_except"
    /\ lpc' = chunk_except(exc).lpc
    /\ exc' = chunk_except(exc).exc
    /\ UNCHANGED <<entry, if_exists, chunk_size, db, file, table_idx, cur_table,
                   chunk_i, rows_loaded, calls, prior>>
    /\ UNCHANGED <<gvars, tvars, txn_counter>>

\* lines 107-111
LoadExcept ==
    /\ lpc = "load_except"
    /\ lpc' = load_except(exc, entry).lpc
    /\ exc' = load_except(exc, entry).exc
    /\ UNCHANGED <<entry, if_exists, chunk_size, db, file, table_idx, cur_table,
                   chunk_i, rows_loaded, calls, prior>>
    /\ UNCHANGED <<gvars, tvars, txn_counter>>

\* lines 136-138
MainExcept ==
    /\ lpc = "main_except"
    /\ lpc' = main_except(exc).lpc
    /\ exc' = main_except(exc).exc
    /\ UNCHANGED <<entry, if_exists, chunk_size, db, file, table_idx, cur_table,
                   chunk_i, rows_loaded, calls, prior>>
    /\ UNCHANGED <<gvars, tvars, txn_counter>>

\* line 105: the chunk iterator is exhausted and load_csv_to_table returns
LoadReturn ==
    /\ lpc = "chunk_loop"
    /\ ~HasChunk
    /\ IF entry = "main"
       THEN lpc' = "next_table" /\ table_idx' = table_idx + 1
       ELSE lpc' = "done" /\ table_idx' = table_idx
    /\ UNCHANGED <<entry, if_exists, chunk_size, db, file, cur_table, chunk_i,
                   rows_loaded, exc, calls, prior>>
    /\ UNCHANGED <<gvars, tvars, txn_counter>>

NextLoad ==
    \/ AcquireEngine
    \/ NextTable
    \/ LoadEntry
    \/ LoadChunk
    \/ LoadChunkRaises
    \/ ChunkExcept
    \/ LoadExcept
    \/ MainExcept
    \/ LoadReturn

SpecLoad == InitLoad /\ [][NextLoad]_vars

----------------------------------------------------------------------------
(* Generator: identifiers and random draws *)

\* chars left-padded with zeros to width w (never truncated): the :0wd format
ZeroPad(chars, w) ==
    IF Len(chars) >= w THEN chars
    ELSE [k \in 1..w |-> IF k <= w - Len(chars) THEN 0 ELSE chars[k - (w - Len(chars))]]

\* f"CUST_{i:05d}", f"ACC_{account_counter:07d}", f"TXN_{txn_counter:010d}"
customer_id_fmt(i) == <<"CUST_", ZeroPad(IntToStr(i), 5)>>
account_id_fmt(k) == <<"ACC_", ZeroPad(IntToStr(k), 7)>>
txn_id_fmt(k) == <<"TXN_", ZeroPad(IntToStr(k), 10)>>

\* values np.random.lognormal can return, in mills; every log-normal has the
\* whole of (0, oo) as its support, whatever its mean and sigma.
\* The draws of a balance: 0.004, 3.60, 20.03 and 1500.00
BalanceDraws == {4, 3600, 20030, 1500000}
\* The draws of an amount: 0.004, 1.20 and 1500.00
Draws == {4, 1200, 1500000}

\* round(x, 2) of x >= 0 given in mills, as the set of results in cents: a value
\* midway between two cents goes to either, since the side is decided by the
\* binary expansion of the double (round(10.015, 2) = 10.02, round(10.045, 2) =
\* 10.04)
Round2(mills) ==
    LET lo == mills \div 10
        r  == mills % 10
    IN IF r < 5 THEN {lo} ELSE IF r > 5 THEN {lo + 1} ELSE {lo, lo + 1}

account_types == {"Savings", "Checking", "Credit"}

\* lines 66-72: the balances (cents) an account of a type gets from a draw
account_balance(account_type, draw) ==
    IF account_type # "Credit"
    THEN Round2(Max(0, draw))
    ELSE {0 - c : c \in Round2(draw)}

transaction_types == {"Deposit", "Withdrawal", "Transfer_In", "Transfer_Out", "Payment"}

\* txn_probs, in hundredths
txn_probs(account_type, txn_type) ==
    CASE account_type = "Savings" ->
           (CASE txn_type = "Deposit" -> 40 [] txn_type = "Withdrawal" -> 20
              [] txn_type = "Transfer_In" -> 15 [] txn_type = "Transfer_Out" -> 15
              [] OTHER -> 10)
      [] account_type = "Checking" ->
           (CASE txn_type = "Deposit" -> 20 [] txn_type = "Withdrawal" -> 30
              [] txn_type = "Transfer_In" -> 10 [] txn_type = "Transfer_Out" -> 10
              [] OTHER -> 30)
      [] OTHER ->
           (CASE txn_type = "Deposit" -> 10 [] txn_type = "Withdrawal" -> 5
              [] txn_type = "Transfer_In" -> 5 [] txn_type = "Transfer_Out" -> 5
              [] OTHER -> 75)

\* random.choices(keys, weights): any key of positive weight
TxnTypeChoices(account_type) ==
    {t \in transaction_types : txn_probs(account_type, t) > 0}

IsInflow(txn_type) == txn_type \in {"Deposit", "Transfer_In"}
IsOutflow(txn_type) == txn_type \in {"Withdrawal", "Transfer_Out", "Payment"}

\* the sign of a number of cents
Sgn(c) == IF c > 0 THEN 1 ELSE IF c < 0 THEN 0 - 1 ELSE 0

\* a value in cents that is a multiple of 0.25, which a double holds exactly
Dyadic(c) == c % 25 = 0

\* an outflow ceiling of the whole running balance
max_outflow_whole_balance(rb, sgn) ==
    IF sgn > 0 THEN Max(10000, rb * 10) ELSE 1000000

\* line 129: max(10, running_balance * 0.5) if running_balance > 0 else 1000,
\* in mills for a running balance in cents; sgn is the sign of the double the
\* test running_balance > 0 reads
max_outflow(rb, sgn) ==
    IF sgn > 0 THEN Max(10000, rb * 5) ELSE 1000000

\* lines 126-133: the amounts (cents) a transaction of a type can get from a draw
txn_amounts(txn_type, rb, sgn, draw) ==
    CASE IsInflow(txn_type)  -> Round2(draw)
      [] IsOutflow(txn_type) ->
            {Max(100, a) : a \in Round2(Min(max_outflow(rb, sgn), draw))}
      [] OTHER               -> Round2(draw)

\* a running balance that an outflow cannot take below zero
balance_after_clamped(txn_type, rb, amount) ==
    CASE IsInflow(txn_type)  -> rb + amount
      [] IsOutflow(txn_type) -> Max(0, rb - amount)
      [] OTHER               -> rb

\* lines 135-138
balance_after(txn_type, rb, amount) ==
    CASE IsInflow(txn_type)  -> rb + amount
      [] IsOutflow(txn_type) -> rb - amount
      [] OTHER               -> rb

\* lines 143-153: the merchant categories a transaction of a type can get
mcc_desc_choices(txn_type) ==
    CASE txn_type = "Withdrawal" -> {"ATM_Withdrawal"}
      [] txn_type \in {"Transfer_In", "Transfer_Out"} -> {"Transfer"}
      [] txn_type = "Payment" -> {"Grocery", "Gas_Station", "Restaurant",
                                  "Online_Retail", "Entertainment", "Service_Payment"}
      [] OTHER -> {"Unknown"}

RECURSIVE InsertSorted(_, _)
InsertSorted(x, s) ==
    IF s = <<>> THEN <<x>>
    ELSE IF x <= Head(s) THEN <<x>> \o s
    ELSE <<Head(s)>> \o InsertSorted(x, Tail(s))

RECURSIVE SortAscending(_)
SortAscending(s) ==
    IF s = <<>> THEN <<>> ELSE InsertSorted(Head(s), SortAscending(Tail(s)))

\* the dates kept in the order they were drawn
txn_dates_as_drawn(ds) == ds

\* line 115: txn_dates.sort()
txn_dates_sort(ds) == SortAscending(ds)

MinTxns == 5

\* the dates drawn, in seconds after start_date
\* lines 135-138 in doubles: the signs the new running balance can have.  A
\* balance that is not zero cents has the sign of its cents; adding or
\* subtracting 0.0 leaves the double as it was; a sum of multiples of 0.25 is
\* exact; any other sum of zero cents carries the rounding error of its
\* operands (3.6 - 1.2 - 1.2 - 1.2 is 4.4e-16, 3.3 - 1.1 - 1.1 - 1.1 is
\* -4.4e-16, 0.2 - 0.1 - 0.1 is 0.0).
balance_signs(txn_type, rb, sgn, exact, amount) ==
    LET after == balance_after(txn_type, rb, amount)
    IN  IF after # 0 THEN {Sgn(after)}
        ELSE IF amount = 0 \/ ~(IsInflow(txn_type) \/ IsOutflow(txn_type))
             THEN {sgn}
        ELSE IF exact /\ Dyadic(amount) THEN {0}
        ELSE {0 - 1, 0, 1}

Dates == 0..MaxDate

\* the narrow ranges: the one date of SpecTxn, the one amount draw of SpecDates
OneDate == {0}
OneDraw == {7000}

----------------------------------------------------------------------------
(* generate_transaction_data on one account *)

InitTxn ==
    /\ IdleLoad /\ IdleGen
    /\ tpc = "account"
    /\ \E ty \in account_types, d \in BalanceDraws :
         \E b \in account_balance(ty, d) :
            account = [account_id |-> account_id_fmt(1), account_type |-> ty,
                       balance |-> b]
    /\ total_txns = 0 /\ txn_dates = <<>> /\ txn_k = 0
    /\ running_balance = 0 /\ balance_before = 0
    /\ rb_sign = 0 /\ rb_exact = TRUE /\ sign_before = 0
    /\ txn = NoTxn /\ txn_rows = <<>>
    /\ txn_counter = 1

\* lines 105-117: the count and the dates are drawn, the dates sorted, the
\* running balance seeded from the account
DrawDates(date_choices) ==
    /\ tpc = "account"
    /\ \E n \in MinTxns..MaxTxns :
         /\ total_txns' = n
         /\ \E ds \in [1..n -> date_choices] : txn_dates' = txn_dates_sort(ds)
    /\ running_balance' = account.balance
    /\ rb_sign' = Sgn(account.balance)
    /\ rb_exact' = Dyadic(account.balance)
    /\ tpc' = "dates"
    /\ UNCHANGED <<account, txn_k, balance_before, sign_before, txn, txn_rows,
                   txn_counter>>
    /\ UNCHANGED <<lvars, gvars>>

\* lines 118-174: one pass of the loop over txn_dates
EmitTxn(draw_choices) ==
    /\ tpc = "dates"
    /\ txn_k < total_txns
    /\ \E ty \in TxnTypeChoices(account.account_type), d \in draw_choices :
         \E amount \in txn_amounts(ty, running_balance, rb_sign, d),
            desc \in mcc_desc_choices(ty) :
            /\ running_balance' = balance_after(ty, running_balance, amount)
            /\ rb_sign' \in balance_signs(ty, running_balance, rb_sign,
                                          rb_exact, amount)
            /\ rb_exact' = (rb_exact /\ Dyadic(amount))
            /\ txn' = [transaction_id |-> txn_id_fmt(txn_counter),
                       account_id |-> account.account_id,
                       transaction_date |-> txn_dates[txn_k + 1],
                       transaction_type |-> ty,
                       amount |-> amount,
                       merchant_category_code |-> mcc_codes(desc)]
    /\ balance_before' = running_balance
    /\ sign_before' = rb_sign
    /\ txn_rows' = Append(txn_rows,
                          [transaction_id |-> txn_id_fmt(txn_counter),
                           transaction_date |-> txn_dates[txn_k + 1]])
    /\ txn_k' = txn_k + 1
    /\ txn_counter' = txn_counter + 1
    /\ UNCHANGED <<tpc, account, total_txns, txn_dates>>
    /\ UNCHANGED <<lvars, gvars>>

\* lines 176-188: the loop is over and the rows become the DataFrame
FinishTxns ==
    /\ tpc = "dates"
    /\ txn_k = total_txns
    /\ tpc' = "done"
    /\ UNCHANGED <<account, total_txns, txn_dates, txn_k, running_balance,
                   rb_sign, rb_exact, balance_before, sign_before, txn,
                   txn_rows, txn_counter>>
    /\ UNCHANGED <<lvars, gvars>>

NextTxn ==
    \/ DrawDates(OneDate)
    \/ EmitTxn(Draws)
    \/ FinishTxns

SpecTxn == InitTxn /\ [][NextTxn]_vars

NextDates ==
    \/ DrawDates(Dates)
    \/ EmitTxn(OneDraw)
    \/ FinishTxns

SpecDates == InitTxn /\ [][NextDates]_vars

----------------------------------------------------------------------------
(* A generation run: the __main__ block of generate_sample_data.py.  The rows *)
(* carry the identifier columns; the other columns of a transaction are in    *)
(* SpecTxn and SpecDates.                                                     *)

\* lines 40-51: the customer row of index i
customer_row(i) == [customer_id |-> customer_id_fmt(i)]

\* an account row that takes its owner from the account counter
account_row_by_counter(counter, customer) ==
    [account_id |-> account_id_fmt(counter), customer_id |-> customer_id_fmt(counter)]

\* lines 63-79: the account row number `counter`, for a customer row
account_row(counter, customer) ==
    [account_id |-> account_id_fmt(counter), customer_id |-> customer.customer_id]

\* the narrow range of SpecGen: every transaction drawn is a Deposit
OneType == {"Deposit"}

\* lines 119, 140-173: the transaction row number `counter`, for an account row
\* and a merchant description
transaction_row(counter, acct, desc) ==
    [transaction_id |-> txn_id_fmt(counter), account_id |-> acct.account_id,
     merchant_category_code |-> mcc_codes(desc)]

InitGen ==
    /\ IdleLoad /\ IdleTxn
    /\ gpc = "customers"
    /\ n_customers \in 0..MaxCustomers
    /\ customers = <<>> /\ accounts = <<>> /\ transactions = <<>>
    /\ cust_i = 0 /\ acct_i = 0 /\ account_counter = 0
    /\ cur_total = 0 /\ cur_k = 0
    /\ txn_counter = 0

\* generate_customer_data(NUM_CUSTOMERS), lines 32-52
GenerateCustomers ==
    /\ gpc = "customers"
    /\ customers' = [i \in 1..n_customers |-> customer_row(i)]
    /\ gpc' = "save_customers"
    /\ UNCHANGED <<n_customers, accounts, transactions, cust_i, acct_i,
                   account_counter, cur_total, cur_k, txn_counter>>
    /\ UNCHANGED <<lvars, tvars>>

\* lines 194-200 and 56-58: customers.csv is written, then
\* generate_account_data starts
SaveCustomers ==
    /\ gpc = "save_customers"
    /\ file' = [file EXCEPT !["customers"] =
                    to_csv("customers", [k \in 1..Len(customers) |-> <<>>])]
    /\ gpc' = "accounts"
    /\ cust_i' = 1
    /\ account_counter' = 1
    /\ UNCHANGED <<n_customers, customers, accounts, transactions, acct_i,
                   cur_total, cur_k, txn_counter>>
    /\ UNCHANGED <<lpc, entry, if_exists, chunk_size, db, table_idx, cur_table,
                   chunk_i, rows_loaded, exc, calls, prior>>
    /\ UNCHANGED tvars

\* generate_account_data, lines 60-80: the accounts of one customer
GenerateAccounts ==
    /\ gpc = "accounts"
    /\ cust_i <= Len(customers)
    /\ \E num_accounts \in 1..MaxAccountsPerCustomer :
         /\ accounts' = accounts \o
               [j \in 1..num_accounts |->
                   account_row(account_counter + j - 1, customers[cust_i])]
         /\ account_counter' = account_counter + num_accounts
    /\ cust_i' = cust_i + 1
    /\ UNCHANGED <<gpc, n_customers, customers, transactions, acct_i, cur_total,
                   cur_k, txn_counter>>
    /\ UNCHANGED <<lvars, tvars>>

\* line 81: the accounts are complete and returned as a DataFrame
AccountsDone ==
    /\ gpc = "accounts"
    /\ cust_i > Len(customers)
    /\ gpc' = "save_accounts"
    /\ UNCHANGED <<n_customers, customers, accounts, transactions, cust_i, acct_i,
                   account_counter, cur_total, cur_k, txn_counter>>
    /\ UNCHANGED <<lvars, tvars>>

\* lines 200-206 and 85-102: accounts.csv is written, then
\* generate_transaction_data starts
SaveAccounts ==
    /\ gpc = "save_accounts"
    /\ file' = [file EXCEPT !["accounts"] =
                    to_csv("accounts", [k \in 1..Len(accounts) |-> <<>>])]
    /\ gpc' = "transactions"
    /\ acct_i' = 1
    /\ txn_counter' = 1
    /\ UNCHANGED <<n_customers, customers, accounts, transactions, cust_i,
                   account_counter, cur_total, cur_k>>
    /\ UNCHANGED <<lpc, entry, if_exists, chunk_size, db, table_idx, cur_table,
                   chunk_i, rows_loaded, exc, calls, prior>>
    /\ UNCHANGED tvars

\* lines 104-117: the next account's transaction count is drawn
StartAccount ==
    /\ gpc = "transactions"
    /\ acct_i <= Len(accounts)
    /\ cur_total' \in MinTxns..MaxTxns
    /\ cur_k' = 0
    /\ gpc' = "txn_loop"
    /\ UNCHANGED <<n_customers, customers, accounts, transactions, cust_i, acct_i,
                   account_counter, txn_counter>>
    /\ UNCHANGED <<lvars, tvars>>

\* lines 118-174: one transaction row of the account is appended; after the
\* account's last row the loop over accounts moves on
EmitRow ==
    /\ gpc = "txn_loop"
    /\ cur_k < cur_total
    /\ \E ty \in OneType : \E desc \in mcc_desc_choices(ty) :
         transactions' = Append(transactions,
                                transaction_row(txn_counter, accounts[acct_i], desc))
    /\ txn_counter' = txn_counter + 1
    /\ cur_k' = cur_k + 1
    /\ IF cur_k + 1 = cur_total
       THEN gpc' = "transactions" /\ acct_i' = acct_i + 1
       ELSE UNCHANGED <<gpc, acct_i>>
    /\ UNCHANGED <<n_customers, customers, accounts, cust_i, account_counter,
                   cur_total>>
    /\ UNCHANGED <<lvars, tvars>>

\* lines 176-188: the rows become a DataFrame; with no rows it has no
\* transaction_date column and line 186 raises KeyError
BuildFrame ==
    /\ gpc = "transactions"
    /\ acct_i > Len(accounts)
    /\ gpc' = IF transactions = <<>> THEN "KeyError" ELSE "save_transactions"
    /\ UNCHANGED <<n_customers, customers, accounts, transactions, cust_i, acct_i,
                   account_counter, cur_total, cur_k, txn_counter>>
    /\ UNCHANGED <<lvars, tvars>>

\* lines 206-217: transactions.csv is written and the run is complete
SaveTransactions ==
    /\ gpc = "save_transactions"
    /\ file' = [file EXCEPT !["transactions"] =
                    to_csv("transactions",
                           [k \in 1..Len(transactions) |->
                               transactions[k].merchant_category_code])]
    /\ gpc' = "done"
    /\ UNCHANGED <<n_customers, customers, accounts, transactions, cust_i, acct_i,
                   account_counter, cur_total, cur_k, txn_counter>>
    /\ UNCHANGED <<lpc, entry, if_exists, chunk_size, db, table_idx, cur_table,
                   chunk_i, rows_loaded, exc, calls, prior>>
    /\ UNCHANGED tvars

NextGen ==
    \/ GenerateCustomers
    \/ SaveCustomers
    \/ GenerateAccounts
    \/ AccountsDone
    \/ SaveAccounts
    \/ StartAccount
    \/ EmitRow
    \/ BuildFrame
    \/ SaveTransactions

SpecGen == InitGen /\ [][NextGen]_vars

----------------------------------------------------------------------------
(* Generator: properties *)

\* C7: every account's customer_id is the id of a generated customer and every
\* transaction's account_id is the id of a generated account.
C7_ReferentialClosure ==
    /\ \A k \in 1..Len(accounts) :
          \E j \in 1..Len(customers) :
              accounts[k].customer_id = customers[j].customer_id
    /\ \A k \in 1..Len(transactions) :
          \E j \in 1..Len(accounts) :
              transactions[k].account_id = accounts[j].account_id

\* a finished run with the most customers, more accounts than customers and
\* the transactions of each
C7_Witness ==
    /\ gpc = "done"
    /\ Len(customers) = MaxCustomers
    /\ Len(accounts) > Len(customers)
    /\ Len(transactions) >= MinTxns * Len(accounts)

TxnNumber(row) == ParseInt(row.transaction_id[2])

\* C8: the transactions emitted for an account are in increasing
\* transaction_id order and their transaction_date never decreases along it.
C8_DatesNonDecreasing ==
    \A j, k \in 1..Len(txn_rows) :
        j < k => /\ TxnNumber(txn_rows[j]) < TxnNumber(txn_rows[k])
                 /\ txn_rows[j].transaction_date <= txn_rows[k].transaction_date

\* every transaction of an account is emitted, and both the earliest and the
\* latest date were drawn
C8_Witness ==
    /\ tpc = "done"
    /\ Len(txn_rows) = MaxTxns
    /\ txn_rows[1].transaction_date = 0
    /\ txn_rows[Len(txn_rows)].transaction_date = MaxDate

\* C9 as stated: an outflow's amount is at least 1.00, at most
\* max(10, rb * 0.5) when the balance rb before it is positive and at most 1000
\* when it is not, and the running balance moves by exactly the amount, down
\* for an outflow and up for an inflow.
C9_OutflowWithinCap ==
    txn # NoTxn =>
        /\ IsOutflow(txn.transaction_type) =>
              /\ txn.amount >= 100
              /\ sign_before > 0 =>
                    txn.amount * 10 <= Max(10000, balance_before * 5)
              /\ sign_before <= 0 => txn.amount <= 100000
              /\ running_balance = balance_before - txn.amount
        /\ IsInflow(txn.transaction_type) =>
              running_balance = balance_before + txn.amount

\* C9 as amended: the same, the ceiling for a positive balance being
\* max(10, rb * 0.5) rounded to two decimals, which is up to half a cent above
\* max(10, rb * 0.5) itself.
C9_OutflowWithinRoundedCap ==
    txn # NoTxn =>
        /\ IsOutflow(txn.transaction_type) =>
              /\ txn.amount >= 100
              /\ sign_before > 0 =>
                    txn.amount * 10 <= Max(10000, balance_before * 5) + 5
              /\ sign_before <= 0 => txn.amount <= 100000
              /\ running_balance = balance_before - txn.amount
        /\ IsInflow(txn.transaction_type) =>
              running_balance = balance_before + txn.amount

\* an outflow from a balance of 20.03 whose draw was cut to 10.015 and rounded
\* up to 10.02
C9_Witness ==
    /\ IsOutflow(txn.transaction_type)
    /\ balance_before = 2003
    /\ txn.amount = 1002
    /\ running_balance = 1001

\* C10: every generated transaction has an amount above zero once rounded.
C10_AmountPositive ==
    txn # NoTxn => txn.amount > 0

\* C11: the running balance is never clamped: an outflow lowers it by the whole
\* amount, also to zero or below; from a non-positive balance an outflow takes
\* up to 1000.00, so after k transactions the balance can be as low as, and no
\* lower than, 1000.00 * k below the lesser of the opening balance and zero.
C11_BalanceNotClamped ==
    txn # NoTxn =>
        /\ IsOutflow(txn.transaction_type) =>
              /\ running_balance = balance_before - txn.amount
              /\ balance_before <= 0 =>
                    (txn.amount <= 100000 /\ running_balance < balance_before)
        /\ running_balance >= Min(account.balance, 0) - 100000 * txn_k

\* an account opened with a positive balance whose outflows took it below zero
\* and then 1000.00 lower each time, past 1000.00 * (MaxTxns - 3) of debt
C11_Witness ==
    /\ account.balance > 0
    /\ txn_k = MaxTxns
    /\ IsOutflow(txn.transaction_type)
    /\ balance_before < 0
    /\ txn.amount = 100000
    /\ running_balance < 0 - 100000 * (MaxTxns - 3)

----------------------------------------------------------------------------
(* Loader: properties *)

TableIndex(t) == CHOOSE k \in 1..Len(get_files_and_tables) : get_files_and_tables[k] = t

\* the load of table t has returned without raising
Loaded(t) ==
    IF entry = "main" THEN table_idx > 0 /\ TableIndex(t) < table_idx /\ file[t].exists
    ELSE cur_table = t /\ lpc = "done"

\* the positions (column n) of the rows a table holds, in order
RowNs(rows) == [k \in 1..Len(rows) |-> rows[k].n]

FileNs(t) == [k \in 1..Len(file[t].rows) |-> k]

\* C1: after a load run started by main() that completes without error,
\* every table holds exactly the rows of its file, in any number of batches.
C1_TableHoldsFile ==
    (entry = "main" /\ lpc = "done") =>
        \A t \in Tables : db[t].exists /\ RowNs(db[t].rows) = FileNs(t)

\* C2 as stated: after any load of a table has returned, none of the rows the
\* table held before the load is still in it.
C2_EveryLoadDiscards ==
    \A t \in Tables :
        Loaded(t) => Range(db[t].rows) \cap Range(prior[t]) = {}

\* C2 as amended: after a load with if_exists='replace' (the mode main() passes
\* for every table) has returned, none of the rows the table held before the
\* load is still in it.
C2_ReplaceLoadDiscards ==
    \A t \in Tables :
        (Loaded(t) /\ if_exists = "replace")
            => Range(db[t].rows) \cap Range(prior[t]) = {}

\* a replace load of several chunks has returned on a table that held a row
C2_Witness ==
    /\ entry = "direct" /\ lpc = "done" /\ if_exists = "replace"
    /\ prior[cur_table] # <<>>
    /\ Len(file[cur_table].rows) = MaxRows
    /\ chunk_size = 1

\* C3: every transaction row the loader wrote carries the 4-character
\* merchant_category_code its file row was generated with.
C3_MccRoundTrip ==
    \A k \in 1..Len(db["transactions"].rows) :
        LET r == db["transactions"].rows[k]
        IN r.src = "file" =>
             /\ Len(r.mcc) = 4
             /\ r.mcc = file["transactions"].rows[r.n].mcc

Raising == lpc \in {"chunk_except", "load_except", "main_except", "raised"}

\* C4: once writing a batch has failed nothing more is written (no retry, no
\* later batch, no later table) and the same exception travels through every
\* handler to the top; a run never ends successfully after a failed batch.
C4_AbortAndPropagate ==
    /\ [](/\ Raising <=> exc # NoExc
          /\ \A k \in 1..Len(calls) : calls[k][3] = "raised" => k = Len(calls) /\ Raising
          /\ \A j, k \in 1..Len(calls) :
                (calls[j][1] = calls[k][1] /\ calls[j][2] = calls[k][2]) => j = k)
    /\ [][exc # NoExc =>
            /\ exc' = exc
            /\ db' = db
            /\ calls' = calls
            /\ lpc' \in {"load_except", "main_except", "raised"}]_vars

\* main() has ended with the error of the second batch of accounts
C4_Witness ==
    /\ entry = "main" /\ lpc = "raised"
    /\ exc = ToSqlError("accounts", 2)
    /\ Len(file["accounts"].rows) = MaxRows

\* C5: when batch i of a table fails, the rows of batches 1..i-1 are still in
\* the table and every table loaded earlier in the run holds exactly the rows
\* of its file.
C5_NoRollback ==
    (entry = "main" /\ exc.type = "DatabaseError") =>
        /\ \A n \in 1..Min((exc.chunk - 1) * chunk_size, Len(file[exc.table].rows)) :
              \E k \in 1..Len(db[exc.table].rows) :
                  /\ db[exc.table].rows[k].src = "file"
                  /\ db[exc.table].rows[k].n = n
        /\ \A t \in Tables :
              Loaded(t) => RowNs(db[t].rows) = FileNs(t)

\* every chunk of table t's file has been written successfully before call k
WrittenBefore(t, k) ==
    \A i \in 1..NumChunks(Len(file[t].rows), chunk_size) :
        \E j \in 1..(k - 1) : calls[j] = <<t, i, "ok">>

\* C6: in a run of main() no batch of accounts is written before every batch of
\* customers has been written successfully, and no batch of transactions before
\* every batch of accounts.
C6_LoadOrder ==
    entry = "main" =>
        \A k \in 1..Len(calls) :
            /\ calls[k][1] = "accounts" => WrittenBefore("customers", k)
            /\ calls[k][1] = "transactions" =>
                  WrittenBefore("accounts", k) /\ WrittenBefore("customers", k)

\* a batch of transactions is being written after several batches of each parent
C6_Witness ==
    /\ entry = "main" /\ chunk_size = 1
    /\ Len(file["customers"].rows) = 2 /\ Len(file["accounts"].rows) = MaxRows
    /\ \E k \in 1..Len(calls) : calls[k][1] = "transactions"

====
